---- MODULE Spec2Model ----
(***************************************************************************)
(* State-machine model of ztf_sim's Scheduler (src/ztf_sim/Scheduler.py):  *)
(* the registry of named queues, the active queue Q and the list           *)
(* timed_queues_tonight, with one action per public method.                *)
(*                                                                         *)
(* A queue object is a record of the attributes the Scheduler reads:       *)
(*   queue_name, queue_type, validity_window, is_TOO,                      *)
(*   len (= len(qq.queue)) and requests_in_window.                         *)
(* Two queue objects are the same object iff their records are equal.      *)
(* self.queues is a Python dict: it is modelled as a sequence of           *)
(* [name, q] entries in insertion order, with at most one entry per name.  *)
(* Callers register a queue under its own queue_name.                      *)
(* A call is atomic: the fields change to the method's outcome, and call   *)
(* records which method ran, whether it raised and whether it switched Q.  *)
(*                                                                         *)
(* The driver loop of src/ztf_sim/observe.py is modelled beside it: the    *)
(* telescope tel, the request pool of Q.rp, the fetched next_obs, the      *)
(* logger's prev_obs and pointing history, and pc, the call the loop is    *)
(* about to make.                                                          *)
(***************************************************************************)
EXTENDS Integers, Sequences, FiniteSets, TLC

VARIABLES queues, Q, timed_queues_tonight, call,
          tel, requests, next_obs, prev_obs, history, pc

\* the fields of the Scheduler, and the objects and the position of the loop
\* of observe()
scheduler == <<queues, Q, timed_queues_tonight, call>>

driver == <<tel, requests, next_obs, prev_obs, history, pc>>

vars == <<queues, Q, timed_queues_tonight, call,
          tel, requests, next_obs, prev_obs, history, pc>>

\* time_now ranges over 0..MaxTime
MaxTime == 3

\* len(qq.queue) ranges over 0..MaxLen
MaxLen == 1

Times == 0..MaxTime

Reserved == {"default", "fallback"}

Names == Reserved \cup {"q1", "q2"}

\* validity_window is None
None == <<>>

\* the validity windows of the timed queues
Windows == {<<1, 2>>}

\* The queue objects a caller may build under the name n: default is the
\* nightly-optimized queue and fallback the greedy queue, both window-less;
\* any other name is a window-less list queue, a list queue with a window
\* that is a TOO queue, or a greedy queue with a window.
QueueObjects(n) ==
    IF n = "default"
    THEN {[queue_name |-> n, queue_type |-> "gurobi", validity_window |-> None,
           is_TOO |-> FALSE, len |-> 0, requests_in_window |-> TRUE]}
    ELSE IF n = "fallback"
    THEN {[queue_name |-> n, queue_type |-> "greedy", validity_window |-> None,
           is_TOO |-> FALSE, len |-> 0, requests_in_window |-> TRUE]}
    ELSE {[queue_name |-> n, queue_type |-> "list", validity_window |-> None,
           is_TOO |-> FALSE, len |-> l, requests_in_window |-> TRUE]
             : l \in 0..MaxLen}
         \cup
         {[queue_name |-> n, queue_type |-> "list", validity_window |-> w,
           is_TOO |-> TRUE, len |-> l, requests_in_window |-> TRUE]
             : w \in Windows, l \in 0..MaxLen}
         \cup
         {[queue_name |-> n, queue_type |-> "greedy", validity_window |-> w,
           is_TOO |-> FALSE, len |-> 0, requests_in_window |-> r]
             : w \in Windows, r \in BOOLEAN}

----------------------------------------------------------------------------
(* Python dict operations on the registry *)

\* self.queues.keys()
Keys(qs) == {qs[i].name : i \in DOMAIN qs}

\* name in self.queues
Has(qs, n) == n \in Keys(qs)

\* self.queues[name]
Get(qs, n) == qs[CHOOSE i \in DOMAIN qs : qs[i].name = n].q

\* self.queues[name] = q : an existing key keeps its position, a new key is
\* appended
Put(qs, n, q) ==
    IF Has(qs, n)
    THEN [i \in DOMAIN qs |-> IF qs[i].name = n THEN [name |-> n, q |-> q] ELSE qs[i]]
    ELSE Append(qs, [name |-> n, q |-> q])

\* the sequence qs without its entry named n
DelKey(qs, n) == SelectSeq(qs, LAMBDA e : e.name # n)

\* The Scheduler's fields, and the outcome of a method: the fields after it
\* and whether it raised.
State == [queues |-> queues, Q |-> Q, tqt |-> timed_queues_tonight]

Ok(qs, q, t) == [queues |-> qs, Q |-> q, tqt |-> t, raised |-> FALSE]

Raise(st) == [queues |-> st.queues, Q |-> st.Q, tqt |-> st.tqt, raised |-> TRUE]

----------------------------------------------------------------------------
(* Queue capability interface *)

\* QueueManager.is_valid(time): a window-less queue is always valid, a
\* windowed one inside its half-open window [start, end)
is_valid(qq, now) ==
    \/ qq.validity_window = None
    \/ qq.validity_window[1] <= now /\ now < qq.validity_window[2]

\* Times are counted in units of which BlockLen make one block and
\* BlocksPerDay blocks make one day (one unit of mjd).
BlockLen == 2

BlocksPerDay == 2

\* utils.block_index(time): the block of the grid that contains the time
block_index(t) == t \div BlockLen

\* np.floor(time.mjd), and Time(mjd, format='mjd')
mjd_floor(t) == t \div (BlockLen * BlocksPerDay)

mjd_time(d) == d * (BlockLen * BlocksPerDay)

\* QueueManager.valid_blocks(complete_only): the blocks that meet the window
\* [start, end), or with complete_only those that lie wholly inside it
valid_blocks(qq, complete_only) ==
    LET start == qq.validity_window[1]
        stop == qq.validity_window[2]
    IN {b \in block_index(start)..block_index(stop) :
          IF complete_only
          THEN start <= b * BlockLen /\ (b + 1) * BlockLen <= stop
          ELSE b * BlockLen < stop /\ start < (b + 1) * BlockLen}

----------------------------------------------------------------------------
(* Scheduler methods, as functions from the fields to an outcome *)

\* set_queue without its membership test: an unknown name is ignored silently
set_queue_unchecked(st, queue_name) ==
    IF ~Has(st.queues, queue_name)
    THEN Ok(st.queues, st.Q, st.tqt)
    ELSE Ok(st.queues, Get(st.queues, queue_name), st.tqt)

set_queue(st, queue_name) ==
    IF ~Has(st.queues, queue_name)
    THEN Raise(st)
    ELSE Ok(st.queues, Get(st.queues, queue_name), st.tqt)

\* add_queue that ignores clobber and always stores the queue
add_queue_always(st, queue_name, queue, clobber) ==
    Ok(Put(st.queues, queue_name, queue), st.Q, st.tqt)

add_queue(st, queue_name, queue, clobber) ==
    IF clobber \/ ~Has(st.queues, queue_name)
    THEN Ok(Put(st.queues, queue_name, queue), st.Q, st.tqt)
    ELSE Raise(st)

delete_queue(st, queue_name) ==
    IF Has(st.queues, queue_name)
    THEN LET s1 == IF st.Q.queue_name = queue_name
                   THEN set_queue(st, "default")
                   ELSE Ok(st.queues, st.Q, st.tqt)
         IN IF s1.raised THEN Raise(st)
            ELSE Ok(DelKey(s1.queues, queue_name), s1.Q, s1.tqt)
    ELSE Raise(st)

\* the TOO loop without the test that no TOO queue is active yet
RECURSIVE TOO_loop_any_active(_, _, _)
TOO_loop_any_active(st, i, time_now) ==
    IF i > Len(st.queues) THEN st
    ELSE LET qq_name == st.queues[i].name
             qq == st.queues[i].q
             s1 == IF qq.is_TOO /\ is_valid(qq, time_now) /\ qq.len # 0
                   THEN set_queue(st, qq_name)
                   ELSE st
         IN TOO_loop_any_active(s1, i + 1, time_now)

\* the loop of check_for_TOO_queue_and_switch from entry i on
RECURSIVE TOO_loop(_, _, _)
TOO_loop(st, i, time_now) ==
    IF i > Len(st.queues) THEN st
    ELSE LET qq_name == st.queues[i].name
             qq == st.queues[i].q
             s1 == IF qq.is_TOO /\ is_valid(qq, time_now)
                      /\ ~st.Q.is_TOO /\ qq.len # 0
                   THEN set_queue(st, qq_name)
                   ELSE st
         IN TOO_loop(s1, i + 1, time_now)

check_for_TOO_queue_and_switch(st, time_now) ==
    LET r == TOO_loop(st, 1, time_now)
    IN Ok(r.queues, r.Q, r.tqt)

\* the loop of find_excluded_blocks_tonight from entry i on: tqt is the list
\* timed_queues_tonight built so far
RECURSIVE tonight_loop(_, _, _, _)
tonight_loop(qs, i, tqt, time_now) ==
    IF i > Len(qs) THEN tqt
    ELSE LET qq_name == qs[i].name
             qq == qs[i].q
             block_start == block_index(mjd_time(mjd_floor(time_now)))
             block_stop == block_index(mjd_time(mjd_floor(time_now) + 1))
             all_valid_blocks_tonight ==
                 {b \in valid_blocks(qq, FALSE) : block_start <= b /\ b <= block_stop}
         IN IF qq.queue_name \in {"default", "fallback"}
            THEN tonight_loop(qs, i + 1, tqt, time_now)
            ELSE IF qq.validity_window # None /\ all_valid_blocks_tonight # {}
                 THEN tonight_loop(qs, i + 1, Append(tqt, qq_name), time_now)
                 ELSE tonight_loop(qs, i + 1, tqt, time_now)

\* find_excluded_blocks_tonight without the reset of timed_queues_tonight
find_excluded_blocks_no_reset(st, time_now) ==
    Ok(st.queues, st.Q, tonight_loop(st.queues, 1, st.tqt, time_now))

\* find_excluded_blocks_tonight: its effect on the fields
find_excluded_blocks_tonight(st, time_now) ==
    Ok(st.queues, st.Q, tonight_loop(st.queues, 1, <<>>, time_now))

\* a set of block indices as the ascending list valid_blocks returns
RECURSIVE Ascending(_)
Ascending(S) ==
    IF S = {} THEN <<>>
    ELSE LET b == CHOOSE x \in S : \A y \in S : x <= y
         IN <<b>> \o Ascending(S \ {b})

\* the loop of find_excluded_blocks_tonight over the registry from entry i on:
\* the list exclude_blocks it builds with extend
RECURSIVE exclude_loop(_, _, _, _)
exclude_loop(qs, i, exclude_blocks, time_now) ==
    IF i > Len(qs) THEN exclude_blocks
    ELSE LET qq == qs[i].q
             block_start == block_index(mjd_time(mjd_floor(time_now)))
             block_stop == block_index(mjd_time(mjd_floor(time_now) + 1))
             valid_blocks_tonight ==
                 {b \in valid_blocks(qq, TRUE) : block_start <= b /\ b <= block_stop}
         IN IF qq.queue_name \in {"default", "fallback"}
            THEN exclude_loop(qs, i + 1, exclude_blocks, time_now)
            ELSE IF qq.validity_window # None
                 THEN exclude_loop(qs, i + 1,
                                   exclude_blocks \o Ascending(valid_blocks_tonight),
                                   time_now)
                 ELSE exclude_loop(qs, i + 1, exclude_blocks, time_now)

\* find_excluded_blocks_tonight: the list it returns
exclude_blocks_returned(st, time_now) ==
    exclude_loop(st.queues, 1, <<>>, time_now)

\* the timed scan without the length test of list queues
RECURSIVE timed_loop_any_list(_, _, _)
timed_loop_any_list(st, i, time_now) ==
    IF i > Len(st.queues) THEN st
    ELSE LET qq_name == st.queues[i].name
             qq == st.queues[i].q
             s1 == IF qq.validity_window # None /\ is_valid(qq, time_now)
                   THEN IF qq.queue_type = "list"
                        THEN set_queue(st, qq_name)
                        ELSE IF qq.requests_in_window THEN set_queue(st, qq_name) ELSE st
                   ELSE st
         IN timed_loop_any_list(s1, i + 1, time_now)

\* the scan of check_for_timed_queue_and_switch from entry i on
RECURSIVE timed_loop(_, _, _)
timed_loop(st, i, time_now) ==
    IF i > Len(st.queues) THEN st
    ELSE LET qq_name == st.queues[i].name
             qq == st.queues[i].q
             s1 == IF qq.validity_window # None /\ is_valid(qq, time_now)
                   THEN IF qq.queue_type = "list"
                        THEN IF qq.len # 0 THEN set_queue(st, qq_name) ELSE st
                        ELSE IF qq.requests_in_window THEN set_queue(st, qq_name) ELSE st
                   ELSE st
         IN timed_loop(s1, i + 1, time_now)

\* check_for_timed_queue_and_switch that scans whatever queue is active
check_for_timed_always_scan(st, time_now) ==
    LET s1 == IF st.Q.queue_name # "default" /\ ~is_valid(st.Q, time_now)
              THEN set_queue(st, "default")
              ELSE Ok(st.queues, st.Q, st.tqt)
    IN IF s1.raised THEN Raise(st)
       ELSE LET r == timed_loop(s1, 1, time_now)
            IN Ok(r.queues, r.Q, r.tqt)

check_for_timed_queue_and_switch(st, time_now) ==
    LET s1 == IF st.Q.queue_name # "default" /\ ~is_valid(st.Q, time_now)
              THEN set_queue(st, "default")
              ELSE Ok(st.queues, st.Q, st.tqt)
    IN IF s1.raised THEN Raise(st)
       ELSE IF s1.Q.queue_name \in {"default", "fallback"}
            THEN LET r == timed_loop(s1, 1, time_now)
                 IN Ok(r.queues, r.Q, r.tqt)
            ELSE s1

\* queues_for_deletion without the test that skips default and fallback
queues_for_deletion_reserved_too(st, time_now) ==
    {st.queues[i].name : i \in
        {j \in DOMAIN st.queues :
            LET qq == st.queues[j].q
            IN \/ qq.validity_window # None /\ qq.validity_window[2] < time_now
               \/ qq.queue_type = "list" /\ qq.len = 0}}

\* the names remove_empty_and_expired_queues collects
queues_for_deletion(st, time_now) ==
    {st.queues[i].name : i \in
        {j \in DOMAIN st.queues :
            LET qq == st.queues[j].q
            IN /\ qq.queue_name \notin {"default", "fallback"}
               /\ \/ qq.validity_window # None /\ qq.validity_window[2] < time_now
                  \/ qq.queue_type = "list" /\ qq.len = 0}}

\* the deletion loop over the names in the sequence order, from entry i on;
\* an exception leaves the deletions made so far in place
RECURSIVE delete_loop(_, _, _)
delete_loop(st, order, i) ==
    IF i > Len(order) THEN Ok(st.queues, st.Q, st.tqt)
    ELSE LET s1 == delete_queue(st, order[i])
         IN IF s1.raised THEN s1 ELSE delete_loop(s1, order, i + 1)

\* the orders in which a Python set of names may be iterated
Orders(S) ==
    {o \in [1..Cardinality(S) -> S] : \A i, j \in DOMAIN o : i # j => o[i] # o[j]}

remove_empty_and_expired_queues(st, order) ==
    delete_loop(st, order, 1)

----------------------------------------------------------------------------
(* count_timed_observations_tonight *)

\* constants.PROGRAM_IDS
PROGRAM_IDS == {1, 2, 3}

\* constants.EXPOSURE_TIME and constants.READOUT_TIME, in seconds
EXPOSURE_TIME == 30

READOUT_TIME == 15

\* a request table holds at most MaxRows rows
MaxRows == 4

\* the rows of a request table that has no n_repeats column, and of one that
\* has it: program 4 is not one of PROGRAM_IDS
PlainRows ==
    {[program_id |-> 1, exposure_time |-> 30],
     [program_id |-> 2, exposure_time |-> 60],
     [program_id |-> 4, exposure_time |-> 30]}

RepeatRows ==
    {[program_id |-> 1, exposure_time |-> 30, n_repeats |-> 1],
     [program_id |-> 2, exposure_time |-> 60, n_repeats |-> 2],
     [program_id |-> 4, exposure_time |-> 30, n_repeats |-> 1]}

\* the sequences of at most MaxRows of the rows R, listed by program
ListedByProgram(R) ==
    UNION {{t \in [1..n -> R] :
                \A i, j \in 1..n : i <= j => t[i].program_id <= t[j].program_id}
             : n \in 0..MaxRows}

\* the request tables qq.queue of the list queues
Tables ==
    {[columns |-> {"program_id", "exposure_time"}, rows |-> t]
        : t \in ListedByProgram(PlainRows)}
    \cup
    {[columns |-> {"program_id", "exposure_time", "n_repeats"}, rows |-> t]
        : t \in ListedByProgram(RepeatRows)}

\* the timed list queue named n that holds the request table t
TableQueue(n, t) ==
    [queue_name |-> n, queue_type |-> "list", validity_window |-> <<0, 2>>,
     is_TOO |-> FALSE, len |-> Len(t.rows), requests_in_window |-> TRUE,
     queue |-> t]

\* np.round(t / d) for naturals t and d: to the nearest integer, a tie to the
\* even one
np_round(t, d) ==
    LET q == t \div d
        r == t % d
    IN IF 2 * r < d THEN q
       ELSE IF 2 * r > d THEN q + 1
       ELSE IF q % 2 = 0 THEN q ELSE q + 1

\* queue['n_repeats'] of row i, set to 1 when the table has no such column
n_repeats(queue, i) ==
    IF "n_repeats" \notin queue.columns THEN 1 ELSE queue.rows[i].n_repeats

\* queue['total_time'] of row i
total_time(queue, i) ==
    (queue.rows[i].exposure_time + READOUT_TIME) * n_repeats(queue, i)

\* groupby('program_id').agg(np.sum): the sum of total_time over the rows
\* of program prog from row i on
RECURSIVE net(_, _, _)
net(queue, prog, i) ==
    IF i > Len(queue.rows) THEN 0
    ELSE (IF queue.rows[i].program_id = prog THEN total_time(queue, i) ELSE 0)
         + net(queue, prog, i + 1)

\* count_equivalent: for each program of the table, its rounded share
count_equivalent(queue) ==
    [prog \in {queue.rows[i].program_id : i \in DOMAIN queue.rows} |->
        np_round(net(queue, prog, 1), EXPOSURE_TIME + READOUT_TIME)]

\* the result of count_timed_observations_tonight: the mapping returned, or
\* an exception
Counted(timed_obs) == [raised |-> FALSE, ret |-> timed_obs]

KeyError == [raised |-> TRUE, ret |-> None]

\* the loop over timed_queues_tonight from entry k on: self.queues[qq] raises
\* for a name that is not registered, and timed_obs[k] += v for a program that
\* is not a key of timed_obs
RECURSIVE count_loop(_, _, _)
count_loop(st, k, timed_obs) ==
    IF k > Len(st.tqt) THEN Counted(timed_obs)
    ELSE IF ~Has(st.queues, st.tqt[k]) THEN KeyError
    ELSE LET ce == count_equivalent(Get(st.queues, st.tqt[k]).queue)
         IN IF ~(DOMAIN ce \subseteq PROGRAM_IDS) THEN KeyError
            ELSE count_loop(st, k + 1,
                    [prog \in PROGRAM_IDS |->
                        timed_obs[prog] + IF prog \in DOMAIN ce THEN ce[prog] ELSE 0])

count_timed_observations_tonight(st) ==
    LET timed_obs == [prog \in PROGRAM_IDS |-> 0]
    IN IF Len(st.tqt) = 0 THEN Counted(timed_obs)
       ELSE count_loop(st, 1, timed_obs)

----------------------------------------------------------------------------
(* observe(): the driver loop of src/ztf_sim/observe.py *)

\* the loop runs while tel.current_time < EndTime; wait() and an exposure
\* take one unit of time
EndTime == 3

\* Q.rp holds the requests 1..MaxReq when the loop starts
MaxReq == 3

\* the set-up of observe(): the telescope at the start time, the request pool
\* filled, an empty pointing log, and the loop about to test its condition;
\* next_obs is the dict Q.next_obs returns, with its request_id
Setup ==
    /\ tel = [current_time |-> 0, state |-> "ready"]
    /\ requests = 1..MaxReq
    /\ next_obs = None
    /\ prev_obs = None
    /\ history = <<>>
    /\ pc = "while"

----------------------------------------------------------------------------
(* The state machine *)

\* Scheduler.__init__: the configured queues contain default, which is made
\* the active queue
Init ==
    /\ queues \in {<<[name |-> "default", q |-> d]>> : d \in QueueObjects("default")}
                 \cup
                 {<<[name |-> "default", q |-> d], [name |-> "fallback", q |-> f]>>
                    : d \in QueueObjects("default"), f \in QueueObjects("fallback")}
    /\ Q = Get(queues, "default")
    /\ timed_queues_tonight = <<>>
    /\ call = [op |-> "__init__", raised |-> FALSE, switched |-> FALSE]
    /\ Setup

SetQueue ==
    \E n \in Names :
        LET r == set_queue(State, n)
        IN /\ queues' = r.queues
           /\ Q' = r.Q
           /\ timed_queues_tonight' = r.tqt
           /\ call' = [op |-> "set_queue", raised |-> r.raised, switched |-> r.Q # Q]
           /\ UNCHANGED driver

\* queues are added at run time under the non-reserved names; default and
\* fallback are the configured ones
AddQueue ==
    \E n \in Names \ Reserved : \E q \in QueueObjects(n) : \E clobber \in BOOLEAN :
        LET r == add_queue(State, n, q, clobber)
        IN /\ queues' = r.queues
           /\ Q' = r.Q
           /\ timed_queues_tonight' = r.tqt
           /\ call' = [op |-> "add_queue", raised |-> r.raised, switched |-> r.Q # Q]
           /\ UNCHANGED driver

DeleteQueue ==
    \E n \in Names :
        LET r == delete_queue(State, n)
        IN /\ queues' = r.queues
           /\ Q' = r.Q
           /\ timed_queues_tonight' = r.tqt
           /\ call' = [op |-> "delete_queue", raised |-> r.raised, switched |-> r.Q # Q]
           /\ UNCHANGED driver

CheckTOO ==
    \E now \in Times :
        LET r == check_for_TOO_queue_and_switch(State, now)
        IN /\ queues' = r.queues
           /\ Q' = r.Q
           /\ timed_queues_tonight' = r.tqt
           /\ call' = [op |-> "check_for_TOO_queue_and_switch", raised |-> r.raised, switched |-> r.Q # Q]
           /\ UNCHANGED driver

CheckTimed ==
    \E now \in Times :
        LET r == check_for_timed_queue_and_switch(State, now)
        IN /\ queues' = r.queues
           /\ Q' = r.Q
           /\ timed_queues_tonight' = r.tqt
           /\ call' = [op |-> "check_for_timed_queue_and_switch", raised |-> r.raised, switched |-> r.Q # Q]
           /\ UNCHANGED driver

\* the set of names is iterated in any order
RemoveEmptyExpired ==
    \E now \in Times : \E order \in Orders(queues_for_deletion(State, now)) :
        LET r == remove_empty_and_expired_queues(State, order)
        IN /\ queues' = r.queues
           /\ Q' = r.Q
           /\ timed_queues_tonight' = r.tqt
           /\ call' = [op |-> "remove_empty_and_expired_queues", raised |-> r.raised, switched |-> r.Q # Q]
           /\ UNCHANGED driver

FindExcludedBlocks ==
    \E now \in Times :
        LET r == find_excluded_blocks_tonight(State, now)
        IN /\ queues' = r.queues
           /\ Q' = r.Q
           /\ timed_queues_tonight' = r.tqt
           /\ call' = [op |-> "find_excluded_blocks_tonight", raised |-> r.raised, switched |-> r.Q # Q]
           /\ UNCHANGED driver

Next ==
    \/ SetQueue
    \/ AddQueue
    \/ DeleteQueue
    \/ CheckTOO
    \/ CheckTimed
    \/ RemoveEmptyExpired

Spec == Init /\ [][Next]_vars

\* add_queue as the nightly set-up uses it: the queue added has a window
AddTimedQueue ==
    \E n \in Names \ Reserved :
      \E q \in {o \in QueueObjects(n) : o.validity_window # None} :
        \E clobber \in BOOLEAN :
          LET r == add_queue(State, n, q, clobber)
          IN /\ queues' = r.queues
             /\ Q' = r.Q
             /\ timed_queues_tonight' = r.tqt
             /\ call' = [op |-> "add_queue", raised |-> r.raised, switched |-> r.Q # Q]
             /\ UNCHANGED driver

\* the registry operations on timed queues interleaved with the nightly set-up
NextNight ==
    \/ SetQueue
    \/ AddTimedQueue
    \/ DeleteQueue
    \/ FindExcludedBlocks

SpecNight == Init /\ [][NextNight]_vars

\* the queues the configuration may build for default and fallback: besides
\* the usual ones, a list queue that is empty
ConfiguredObjects(n) ==
    QueueObjects(n) \cup
    {[queue_name |-> n, queue_type |-> "list", validity_window |-> None,
      is_TOO |-> FALSE, len |-> 0, requests_in_window |-> TRUE]}

\* Scheduler.__init__ with default and fallback configured as any queue kind
InitConfigured ==
    /\ queues \in {<<[name |-> "default", q |-> d]>> : d \in ConfiguredObjects("default")}
                 \cup
                 {<<[name |-> "default", q |-> d], [name |-> "fallback", q |-> f]>>
                    : d \in ConfiguredObjects("default"), f \in ConfiguredObjects("fallback")}
    /\ Q = Get(queues, "default")
    /\ timed_queues_tonight = <<>>
    /\ call = [op |-> "__init__", raised |-> FALSE, switched |-> FALSE]
    /\ Setup

\* the registry operations interleaved with the clean-up of the registry
NextPrune ==
    \/ SetQueue
    \/ AddQueue
    \/ DeleteQueue
    \/ RemoveEmptyExpired

SpecPrune == InitConfigured /\ [][NextPrune]_vars

\* the validity windows of the queues of the nightly set-up: the first block
\* of day 0, parts of the second block of day 0 and of the first of day 1,
\* and the first block of day 1
NightWindows == {<<0, 2>>, <<3, 5>>, <<4, 6>>}

\* the timed list queues a caller may build under the name n, each holding
\* one request
NightObjects(n) ==
    {[queue_name |-> n, queue_type |-> "list", validity_window |-> w,
      is_TOO |-> FALSE, len |-> 1, requests_in_window |-> TRUE]
        : w \in NightWindows}

AddNightQueue ==
    \E n \in Names \ Reserved : \E q \in NightObjects(n) : \E clobber \in BOOLEAN :
        LET r == add_queue(State, n, q, clobber)
        IN /\ queues' = r.queues
           /\ Q' = r.Q
           /\ timed_queues_tonight' = r.tqt
           /\ call' = [op |-> "add_queue", raised |-> r.raised, switched |-> r.Q # Q]
           /\ UNCHANGED driver

\* the nightly set-up interleaved with the registry operations and the
\* clean-up
NextTonight ==
    \/ SetQueue
    \/ AddNightQueue
    \/ DeleteQueue
    \/ RemoveEmptyExpired
    \/ FindExcludedBlocks

SpecTonight == Init /\ [][NextTonight]_vars

\* the scheduler after the nightly set-up: default and two timed list queues
\* with their request tables are registered, and find_excluded_blocks_tonight
\* has recorded none, the first or both of them
InitCount ==
    /\ \E d \in QueueObjects("default") : \E t1, t2 \in Tables :
         queues = <<[name |-> "default", q |-> d],
                    [name |-> "q1", q |-> TableQueue("q1", t1)],
                    [name |-> "q2", q |-> TableQueue("q2", t2)]>>
    /\ Q = Get(queues, "default")
    /\ timed_queues_tonight \in {<<>>, <<"q1">>, <<"q1", "q2">>}
    /\ call = [op |-> "find_excluded_blocks_tonight", raised |-> FALSE,
               switched |-> FALSE]
    /\ Setup

CountTimedObservations ==
    LET r == count_timed_observations_tonight(State)
    IN /\ UNCHANGED <<queues, Q, timed_queues_tonight>>
       /\ call' = [op |-> "count_timed_observations_tonight", raised |-> r.raised,
                   switched |-> FALSE, ret |-> r.ret]
       /\ UNCHANGED driver

NextCount == CountTimedObservations

SpecCount == InitCount /\ [][NextCount]_vars

\* the loop condition is false: observe() leaves the loop
LoopExit ==
    /\ pc = "while"
    /\ ~(tel.current_time < EndTime)
    /\ pc' = "done"
    /\ UNCHANGED <<tel, requests, next_obs, prev_obs, history>>
    /\ UNCHANGED scheduler

\* tel.check_if_ready(): when the telescope is not ready the loop calls
\* set_cant_observe() and wait() and goes round again
CheckIfReady ==
    /\ pc = "while"
    /\ tel.current_time < EndTime
    /\ \E ready \in BOOLEAN :
        IF ready
        THEN /\ tel' = [tel EXCEPT !.state = "ready"]
             /\ pc' = "next_obs"
        ELSE /\ tel' = [current_time |-> tel.current_time + 1, state |-> "cant_observe"]
             /\ pc' = "while"
    /\ UNCHANGED <<requests, next_obs, prev_obs, history>>
    /\ UNCHANGED scheduler

\* next_obs = Q.next_obs(current_state): the queue returns one of the pending
\* requests, or fails when none is eligible; the call is not guarded, so the
\* exception ends observe()
NextObs ==
    /\ pc = "next_obs"
    /\ \E eligible \in SUBSET requests :
        IF eligible = {}
        THEN /\ pc' = "aborted"
             /\ UNCHANGED next_obs
        ELSE /\ \E r \in eligible : next_obs' = [request_id |-> r]
             /\ pc' = "start_slew"
    /\ UNCHANGED <<tel, requests, prev_obs, history>>
    /\ UNCHANGED scheduler

\* the recovery that also removes the request that was fetched
RecoverDroppingRequest ==
    /\ tel' = [current_time |-> tel.current_time + 1, state |-> "cant_observe"]
    /\ prev_obs' = None
    /\ pc' = "while"
    /\ requests' = requests \ {next_obs.request_id}
    /\ UNCHANGED <<next_obs, history>>

\* the recovery from a failed slew or exposure: set_cant_observe(),
\* log.prev_obs = None, wait(), continue
Recover ==
    /\ tel' = [current_time |-> tel.current_time + 1, state |-> "cant_observe"]
    /\ prev_obs' = None
    /\ pc' = "while"
    /\ UNCHANGED <<requests, next_obs, history>>

\* tel.start_slew(coordinates of next_obs)
StartSlew ==
    /\ pc = "start_slew"
    /\ \E ok \in BOOLEAN :
        IF ok
        THEN /\ tel' = [tel EXCEPT !.state = "slewing"]
             /\ pc' = "start_exposing"
             /\ UNCHANGED <<requests, next_obs, prev_obs, history>>
        ELSE Recover
    /\ UNCHANGED scheduler

\* tel.start_exposing()
StartExposing ==
    /\ pc = "start_exposing"
    /\ \E ok \in BOOLEAN :
        IF ok
        THEN /\ tel' = [current_time |-> tel.current_time + 1, state |-> "exposing"]
             /\ pc' = "log_pointing"
             /\ UNCHANGED <<requests, next_obs, prev_obs, history>>
        ELSE Recover
    /\ UNCHANGED scheduler

\* the step after the exposure that does not write the pointing log
LogPointingSkipped ==
    /\ pc = "log_pointing"
    /\ pc' = "remove_requests"
    /\ UNCHANGED <<tel, requests, next_obs, prev_obs, history>>
    /\ UNCHANGED scheduler

\* log.log_pointing(tel.current_state_dict(), next_obs)
LogPointing ==
    /\ pc = "log_pointing"
    /\ history' = Append(history, next_obs)
    /\ prev_obs' = next_obs
    /\ pc' = "remove_requests"
    /\ UNCHANGED <<tel, requests, next_obs>>
    /\ UNCHANGED scheduler

\* Q.rp.remove_requests(next_obs['request_id'])
RemoveRequests ==
    /\ pc = "remove_requests"
    /\ requests' = requests \ {next_obs.request_id}
    /\ pc' = "while"
    /\ UNCHANGED <<tel, next_obs, prev_obs, history>>
    /\ UNCHANGED scheduler

NextObserve ==
    \/ LoopExit
    \/ CheckIfReady
    \/ NextObs
    \/ StartSlew
    \/ StartExposing
    \/ LogPointing
    \/ RemoveRequests

SpecObserve == Init /\ [][NextObserve]_vars

----------------------------------------------------------------------------
(* Properties *)

\* the fields after the step, as an outcome
Outcome ==
    [queues |-> queues', Q |-> Q', tqt |-> timed_queues_tonight',
     raised |-> call'.raised]

\* the step is a call of method op that ended with outcome r
Called(op, r) == call'.op = op /\ r = Outcome

\* the queue objects stored in the registry qs
Registered(qs) == {qs[i].q : i \in DOMAIN qs}

\* the least element of a non-empty set of indices
First(S) == CHOOSE i \in S : \A j \in S : i <= j

\* the entries of qs that are TOO queues valid at now and non-empty
TOOEligible(qs, now) ==
    {i \in DOMAIN qs : qs[i].q.is_TOO /\ is_valid(qs[i].q, now) /\ qs[i].q.len # 0}

\* the queue qq has a window, is valid at now, and is a non-empty list queue or
\* a non-list queue with requests in its window
TimedEligibleQueue(qq, now) ==
    /\ qq.validity_window # None
    /\ is_valid(qq, now)
    /\ IF qq.queue_type = "list" THEN qq.len # 0 ELSE qq.requests_in_window

TimedEligible(qs, now) ==
    {i \in DOMAIN qs : TimedEligibleQueue(qs[i].q, now)}

\* C1: in every reachable state the active queue Q is one of the queue objects
\* stored in the registry.
C1_ActiveQueueIsRegistered == Q \in Registered(queues)

\* C2: in every reachable state, set_queue(name) and delete_queue(name) with
\* a name that is not a key of the registry raise and leave the registry, the
\* active queue and timed_queues_tonight as they were.
C2_UnknownNameRaises ==
    \A n \in Names :
        ~Has(queues, n) =>
            \A r \in {set_queue(State, n), delete_queue(State, n)} :
                /\ r.raised
                /\ r.queues = queues
                /\ r.Q = Q
                /\ r.tqt = timed_queues_tonight

\* C2 witness: set_queue with an unknown name has raised while
\* timed_queues_tonight was not empty.
C2_Witness ==
    /\ call.op = "set_queue"
    /\ call.raised
    /\ timed_queues_tonight # <<>>
    /\ Keys(queues) # Names

\* C3: in every reachable state, add_queue(name, q, clobber=False) on a
\* registered name raises and changes neither the registry nor the active
\* queue; with clobber=True or an unregistered name it does not raise, the
\* registry afterwards maps name to q, every other entry is as before and the
\* active queue is unchanged.
C3_AddQueue ==
    \A n \in Names : \A q \in QueueObjects(n) : \A clobber \in BOOLEAN :
        LET r == add_queue(State, n, q, clobber)
        IN IF ~clobber /\ Has(queues, n)
           THEN r.raised /\ r.queues = queues /\ r.Q = Q
           ELSE /\ ~r.raised
                /\ Has(r.queues, n) /\ Get(r.queues, n) = q
                /\ \A m \in Names \ {n} :
                      /\ Has(r.queues, m) = Has(queues, m)
                      /\ Has(queues, m) => Get(r.queues, m) = Get(queues, m)
                /\ r.Q = Q

\* C3 witness: a non-clobbering add_queue on a registered name has raised.
C3_Witness ==
    call.op = "add_queue" /\ call.raised /\ Len(queues) > 1

\* C4: delete_queue(n) of a registered n: if the queue registered under n is
\* the active queue, afterwards n is not registered and the active queue is
\* the registered default queue; otherwise the active queue is unchanged.
C4_DeleteActiveFallsBackToDefault ==
    [][\A n \in Names :
         (Has(queues, n) /\ Called("delete_queue", delete_queue(State, n))) =>
            IF Get(queues, n) = Q
            THEN /\ ~Has(queues', n)
                 /\ Has(queues', "default")
                 /\ Q' = Get(queues', "default")
            ELSE Q' = Q]_vars

\* C5: the registry contains a queue named default in every reachable state.
C5_DefaultAlwaysRegistered == Has(queues, "default")

\* C6: in every reachable state, check_for_TOO_queue_and_switch(now) does not
\* change the registry; if the active queue is not a TOO queue and some TOO
\* queue is valid at now and non-empty, the active queue afterwards is the
\* first such queue in registry order; otherwise the active queue is unchanged.
C6_TOOSwitchFirstFound ==
    \A now \in Times :
        LET r == check_for_TOO_queue_and_switch(State, now)
        IN /\ r.queues = queues
           /\ ~r.raised
           /\ IF ~Q.is_TOO /\ TOOEligible(queues, now) # {}
              THEN r.Q = queues[First(TOOEligible(queues, now))].q
              ELSE r.Q = Q

\* C6 witness: the check has switched to the first of two TOO queues that are
\* valid together and non-empty.
C6_Witness ==
    /\ call.op = "check_for_TOO_queue_and_switch"
    /\ call.switched
    /\ \E now \in Times :
         /\ Cardinality(TOOEligible(queues, now)) >= 2
         /\ Q = queues[First(TOOEligible(queues, now))].q

\* C7: after check_for_timed_queue_and_switch(now) the active queue is named
\* default or fallback or is valid at now; an active queue with a window that
\* is not valid at now has been replaced.
C7_TimedCheckLeavesValidQueue ==
    [][\A now \in Times :
         Called("check_for_timed_queue_and_switch",
                check_for_timed_queue_and_switch(State, now)) =>
            /\ Q'.queue_name \in Reserved \/ is_valid(Q', now)
            /\ (Q.validity_window # None /\ ~is_valid(Q, now)) => Q' # Q]_vars

\* C8: in every reachable state, check_for_timed_queue_and_switch(now) entered
\* with an active queue that is named neither default nor fallback and is
\* valid at now leaves the active queue unchanged.
C8_TimedSwitchOnlyFromDefault ==
    \A now \in Times :
        (Q.queue_name \notin Reserved /\ is_valid(Q, now)) =>
            LET r == check_for_timed_queue_and_switch(State, now)
            IN r.Q = Q /\ ~r.raised

\* C8 witness: the timed check has run with a valid timed queue active while
\* another registered queue was eligible, and has not switched.
C8_Witness ==
    /\ call.op = "check_for_timed_queue_and_switch"
    /\ ~call.switched /\ ~call.raised
    /\ Q.queue_name \notin Reserved
    /\ Q.validity_window # None
    /\ \E now \in Times :
         /\ is_valid(Q, now)
         /\ \E i \in TimedEligible(queues, now) : queues[i].q.queue_name # Q.queue_name

\* C9: check_for_timed_queue_and_switch(now) entered with default or fallback
\* active while some queue is eligible ends with the first eligible queue in
\* registry order active.
C9_TimedSwitchFirstFound ==
    [][\A now \in Times :
         (/\ Called("check_for_timed_queue_and_switch",
                    check_for_timed_queue_and_switch(State, now))
          /\ Q.queue_name \in Reserved
          /\ TimedEligible(queues, now) # {}) =>
            Q' = queues[First(TimedEligible(queues, now))].q]_vars

\* C10: in every reachable state, whenever check_for_timed_queue_and_switch(now)
\* changes the active queue to a queue not named default, that queue is
\* registered, has a validity window, is valid at now, and is a non-empty list
\* queue or a non-list queue with requests in its window.
C10_TimedSwitchOnlyToEligible ==
    \A now \in Times :
        LET r == check_for_timed_queue_and_switch(State, now)
        IN (r.Q # Q /\ r.Q.queue_name # "default") =>
              /\ r.Q \in Registered(queues)
              /\ TimedEligibleQueue(r.Q, now)

\* C10 witness: the timed check has switched to a timed queue while an empty
\* list queue with a window valid at the same time was registered.
C10_Witness ==
    /\ call.op = "check_for_timed_queue_and_switch"
    /\ call.switched
    /\ Q.queue_name \notin Reserved
    /\ \E now \in Times :
         /\ TimedEligibleQueue(Q, now)
         /\ \E i \in DOMAIN queues :
              LET qq == queues[i].q
              IN /\ qq.queue_type = "list" /\ qq.len = 0
                 /\ qq.validity_window # None /\ is_valid(qq, now)

\* the entry e of a registry is garbage at now as the clean-up is described:
\* its window has elapsed, or it is an empty list queue without a window
Garbage(e, now) ==
    \/ e.q.validity_window # None /\ e.q.validity_window[2] < now
    \/ e.q.queue_type = "list" /\ e.q.validity_window = None /\ e.q.len = 0

\* C11: in every reachable state, remove_empty_and_expired_queues(now) keeps
\* default and fallback registered, and when it returns no remaining queue
\* other than default and fallback is a window-less empty list queue and no
\* remaining queue has a window whose end is before now.
C11_RemoveKeepsReservedLeavesNoGarbage ==
    \A now \in Times : \A order \in Orders(queues_for_deletion(State, now)) :
        LET r == remove_empty_and_expired_queues(State, order)
        IN /\ \A n \in Reserved :
                Has(queues, n) => Has(r.queues, n) /\ Get(r.queues, n) = Get(queues, n)
           /\ ~r.raised =>
                \A i \in DOMAIN r.queues :
                    LET e == r.queues[i]
                    IN /\ e.name \notin Reserved =>
                            ~(e.q.queue_type = "list" /\ e.q.validity_window = None
                              /\ e.q.len = 0)
                       /\ ~(e.q.validity_window # None /\ e.q.validity_window[2] < now)

\* remove_empty_and_expired_queues has returned after deleting the active
\* queue, and default, an empty list queue, is still registered
C11_Witness ==
    /\ call.op = "remove_empty_and_expired_queues"
    /\ ~call.raised
    /\ call.switched
    /\ Has(queues, "default")
    /\ Get(queues, "default").queue_type = "list"
    /\ Get(queues, "default").len = 0

\* C12: in every reachable state, remove_empty_and_expired_queues(now)
\* removes a queue other than default and fallback exactly when its window
\* has elapsed at now or it is an empty list queue without a window; every
\* other queue, an empty list queue whose window has not elapsed included,
\* is still registered afterwards.
C12_RemovesExactlyGarbage ==
    \A now \in Times : \A order \in Orders(queues_for_deletion(State, now)) :
        LET r == remove_empty_and_expired_queues(State, order)
        IN \A i \in DOMAIN queues :
            queues[i].name \notin Reserved =>
                (~Has(r.queues, queues[i].name) <=> Garbage(queues[i], now))

\* tonight's block range at now as the nightly set-up is described: from the
\* block of the start of the day of now up to, not including, the block of
\* the start of the next day
Tonight(now) ==
    {b \in Nat : /\ block_index(mjd_time(mjd_floor(now))) <= b
                 /\ b < block_index(mjd_time(mjd_floor(now) + 1))}

\* the entries of qs that are timed queues other than default and fallback
TimedEntries(qs) ==
    {i \in DOMAIN qs : /\ qs[i].q.queue_name \notin Reserved
                       /\ qs[i].q.validity_window # None}

\* the sequence s lists no element twice
NoRepeats(s) == \A j, k \in DOMAIN s : j # k => s[j] # s[k]

Range(s) == {s[k] : k \in DOMAIN s}

\* C13: in every reachable state, find_excluded_blocks_tonight(now) returns
\* exactly the complete-only valid blocks of the timed queues other than
\* default and fallback that lie in tonight's half-open block range: every
\* returned block b has block_start <= b < block_stop, and no block is
\* returned twice.
C13_ExcludedBlocksTonight ==
    \A now \in Times :
        LET ret == exclude_blocks_returned(State, now)
            block_start == block_index(mjd_time(mjd_floor(now)))
            block_stop == block_index(mjd_time(mjd_floor(now) + 1))
        IN /\ \A k \in DOMAIN ret : block_start <= ret[k] /\ ret[k] < block_stop
           /\ NoRepeats(ret)
           /\ Range(ret) =
                UNION {{b \in valid_blocks(queues[i].q, TRUE) :
                            block_start <= b /\ b < block_stop}
                         : i \in TimedEntries(queues)}

\* C14: in every reachable state, after find_excluded_blocks_tonight(now)
\* timed_queues_tonight holds, each once, exactly the names of the registered
\* timed queues other than default and fallback whose window meets tonight's
\* block range, whatever the list held before the call.
C14_TimedQueuesTonight ==
    \A now \in Times :
        LET r == find_excluded_blocks_tonight(State, now)
        IN /\ NoRepeats(r.tqt)
           /\ Range(r.tqt) =
                {queues[i].name : i \in
                    {j \in TimedEntries(queues) :
                        valid_blocks(queues[j].q, FALSE) \cap Tonight(now) # {}}}

\* C15: in every reachable state, find_excluded_blocks_tonight(now) called
\* again on the fields it left, with the same now, returns the same blocks and
\* leaves the same timed_queues_tonight as the first call, and neither call
\* changes the registry or the active queue.
C15_FindExcludedIdempotent ==
    \A now \in Times :
        LET r1 == find_excluded_blocks_tonight(State, now)
            s1 == [queues |-> r1.queues, Q |-> r1.Q, tqt |-> r1.tqt]
            r2 == find_excluded_blocks_tonight(s1, now)
        IN /\ ~r1.raised /\ ~r2.raised
           /\ r1.queues = queues /\ r1.Q = Q
           /\ r2.queues = queues /\ r2.Q = Q
           /\ r2.tqt = r1.tqt
           /\ exclude_blocks_returned(s1, now) = exclude_blocks_returned(State, now)

\* find_excluded_blocks_tonight has run on a registry with two timed queues,
\* recorded both, and returns a block for the same time
C15_Witness ==
    /\ call.op = "find_excluded_blocks_tonight"
    /\ Len(timed_queues_tonight) = 2
    /\ \E now \in Times :
        /\ find_excluded_blocks_tonight(State, now).tqt = timed_queues_tonight
        /\ exclude_blocks_returned(State, now) # <<>>

\* the step is a failed start_slew or a failed start_exposing
FailedStep ==
    \/ pc = "start_slew" /\ pc' # "start_exposing"
    \/ pc = "start_exposing" /\ pc' # "log_pointing"

\* C17: a step of the driver loop in which start_slew or start_exposing
\* fails neither removes the fetched request nor logs it; it calls
\* set_cant_observe, clears prev_obs, advances the time with wait(), and the
\* loop goes on to its next iteration with the request still pending.
C17_FailedStepKeepsRequest ==
    [][FailedStep =>
        /\ requests' = requests
        /\ next_obs.request_id \in requests'
        /\ history' = history
        /\ tel'.state = "cant_observe"
        /\ prev_obs' = None
        /\ tel'.current_time = tel.current_time + 1
        /\ pc' = "while"]_vars

\* after an observation was logged, a later slew or exposure has failed: the
\* loop is back at its condition, prev_obs is cleared and the request that
\* was fetched is still pending
C17_Witness ==
    /\ pc = "while"
    /\ tel.state = "cant_observe"
    /\ next_obs # None
    /\ next_obs.request_id \in requests
    /\ prev_obs = None
    /\ history # <<>>

\* C18: a request leaves the pool only in the step that follows a successful
\* start_slew and start_exposing and the logging of that request, and it is
\* the request that was fetched; the log grows only by the fetched request
\* after a successful exposure; and every request that has left the pool
\* has a record in the log.
C18_RemovedOnlyAfterLogged ==
    /\ [](((1..MaxReq) \ requests) \subseteq {h.request_id : h \in Range(history)})
    /\ [][/\ requests' # requests =>
                /\ pc = "remove_requests"
                /\ tel.state = "exposing"
                /\ requests' = requests \ {next_obs.request_id}
                /\ history # <<>>
                /\ history[Len(history)] = next_obs
          /\ history' # history =>
                /\ pc = "log_pointing"
                /\ tel.state = "exposing"
                /\ next_obs.request_id \in requests
                /\ history' = Append(history, next_obs)]_vars

\* a request has been observed, logged and removed, and the loop is back at
\* its condition
C18_Witness ==
    /\ pc = "while"
    /\ tel.state = "exposing"
    /\ next_obs # None
    /\ next_obs.request_id \notin requests
    /\ next_obs \in Range(history)
    /\ prev_obs = next_obs

\* C19: a step in which Q.next_obs fails because no request is eligible does
\* not end the loop, logs and removes nothing, and the loop goes on to a
\* later iteration.
C19_NoEligibleWorkIsNotFatal ==
    [][(pc = "next_obs" /\ pc' # "start_slew") =>
        /\ pc' = "while"
        /\ requests' = requests
        /\ history' = history]_vars

\* C20: in every state reachable by interleaving find_excluded_blocks_tonight
\* with delete_queue and remove_empty_and_expired_queues, every name in
\* timed_queues_tonight is a key of the registry.
C20_TimedQueuesTonightRegistered ==
    \A k \in DOMAIN timed_queues_tonight : Has(queues, timed_queues_tonight[k])

\* the programs that have a request in one of the timed queues tonight
ProgramsTonight ==
    {row.program_id : row \in
        UNION {Range(Get(queues, n).queue.rows) : n \in Range(timed_queues_tonight)}}

\* the time in seconds the requests of program prog take in the table t
RECURSIVE ProgramTime(_, _)
ProgramTime(t, prog) ==
    IF t.rows = <<>> THEN 0
    ELSE LET row == Head(t.rows)
             rest == [t EXCEPT !.rows = Tail(t.rows)]
             n == IF "n_repeats" \in t.columns THEN row.n_repeats ELSE 1
         IN (IF row.program_id = prog THEN (row.exposure_time + READOUT_TIME) * n ELSE 0)
            + ProgramTime(rest, prog)

\* the sum over the timed queues named in names of the rounded number of
\* equivalent observations of program prog
RECURSIVE Tally(_, _)
Tally(names, prog) ==
    IF names = <<>> THEN 0
    ELSE LET t == Get(queues, Head(names)).queue
             secs == ProgramTime(t, prog)
             cost == EXPOSURE_TIME + READOUT_TIME
             nearest == CHOOSE c \in 0..(secs \div cost + 1) :
                          \A c2 \in 0..(secs \div cost + 1) :
                             \/ c = c2
                             \/ (IF c * cost > secs THEN c * cost - secs ELSE secs - c * cost)
                                < (IF c2 * cost > secs THEN c2 * cost - secs ELSE secs - c2 * cost)
         IN nearest + Tally(Tail(names), prog)

\* C16: in every reachable state, count_timed_observations_tonight returns,
\* without failing, for every program id (those of a timed queue that are
\* not in the initial mapping included) a non-negative count equal to the sum
\* over the queues in timed_queues_tonight of the rounded equivalent
\* observations of the program, all zero when the list is empty.
C16_CountTimedObservations ==
    call.op = "count_timed_observations_tonight" =>
        /\ ~call.raised
        /\ \A prog \in PROGRAM_IDS \cup ProgramsTonight :
            /\ prog \in DOMAIN call.ret
            /\ call.ret[prog] >= 0
            /\ call.ret[prog] = Tally(timed_queues_tonight, prog)

====
